---- MODULE Spec2Model ----
(***************************************************************************)
(* Row-to-record deserialization of serde_postgres (src/de.rs).            *)
(*                                                                         *)
(* The cursor (struct Deserializer: input, index) is driven by the         *)
(* framework's derived struct visitor: next_key_seed, then next_value_seed *)
(* for every column, until next_key_seed reports the end of the map.       *)
(* A struct-typed field re-enters deserialize_struct on the same cursor;   *)
(* the visitor activations are kept on `stack`.                            *)
(***************************************************************************)
EXTENDS Integers, Sequences, FiniteSets, TLC

VARIABLES call, T, rows, pos, input, index, stack, result, req, pc, nvals, out,
          ret

vars ==
    <<call, T, rows, pos, input, index, stack, result, req, pc, nvals, out, ret>>

(***************************************************************************)
(* Bounds of the model.                                                    *)
(***************************************************************************)
MaxCols == 2
MaxRows == 2

(***************************************************************************)
(* Outcomes: Result<V, Error> values, and the abort of an unwrap on None.  *)
(***************************************************************************)
Ok(v) == [tag |-> "Ok", kind |-> "", msg |-> <<>>, val |-> v]

Err(k, m) == [tag |-> "Err", kind |-> k, msg |-> m, val |-> <<>>]

Panic == [tag |-> "Panic", kind |-> "unwrap", msg |-> <<>>, val |-> <<>>]

NoResult == [tag |-> "None", kind |-> "", msg |-> <<>>, val |-> <<>>]

(***************************************************************************)
(* Rows.  A column has a name, an SQL type and a value: <<>> is SQL NULL,  *)
(* <<v>> a stored value.                                                   *)
(***************************************************************************)
Names == {"a", "b"}

Col(n, cell) == [name |-> n, ty |-> cell.ty, value |-> cell.value]

Cell(ty, v) == [ty |-> ty, value |-> v]

CoreCells ==
    { Cell("BOOL", <<TRUE>>), Cell("BOOL", <<>>),
      Cell("INT2", <<20>>), Cell("INT2", <<7>>),
      Cell("BYTEA", <<<<1, 2>>>>) }

ExtraCells ==
    { Cell("CHAR", <<1>>), Cell("INT4", <<1000>>), Cell("INT8", <<1000000>>),
      Cell("OID", <<42>>), Cell("FLOAT4", <<"99.99">>),
      Cell("FLOAT8", <<"9999.9999">>), Cell("TEXT", <<"Woo Woo">>),
      Cell("TEXT", <<>>), Cell("INT2", <<>>), Cell("BYTEA", <<>>),
      Cell("BYTEA", <<<<>>>>) }

CoreColumns == {Col(n, c) : n \in Names, c \in CoreCells}

SeqUpTo(S, n) == UNION {[1..k -> S] : k \in 0..n}

Rows ==
    SeqUpTo(CoreColumns, MaxCols) \cup {<<Col("a", c)>> : c \in ExtraCells}

BatchRows == {<<>>} \cup {<<c>> : c \in CoreColumns}

(***************************************************************************)
(* Target record types: a sequence of fields, each with a name, a static   *)
(* type and, for a struct-typed field, the fields of that struct.          *)
(***************************************************************************)
F(n, ty) == [name |-> n, ty |-> ty, sub |-> <<>>]

S(n, fields) == [name |-> n, ty |-> "Struct", sub |-> fields]

SupportedTypes ==
    {"bool", "i8", "i16", "i32", "i64", "u32", "f32", "f64", "String", "ByteBuf"}

SeqTypes == {"Vec<u8>", "Vec<String>"}

UnsupportedTypes ==
    {"Any", "u8", "u16", "u64", "char", "&str", "&[u8]", "()", "Identifier",
     "Option", "Enum", "UnitStruct", "NewtypeStruct", "Tuple", "TupleStruct"}

LeafTypes == SupportedTypes \cup SeqTypes \cup UnsupportedTypes \cup {"IgnoredAny"}

PairTypes == {"bool", "i16", "Vec<u8>", "Option", "Tuple"}

Inners == {<<F("a", "bool")>>, <<F("b", "i16")>>}

FlatRecords ==
    {<<F("a", ty)>> : ty \in LeafTypes}
    \cup {<<F("a", t1), F("b", t2)>> : t1 \in PairTypes, t2 \in PairTypes}

NestedRecords ==
    {<<S("a", i)>> : i \in Inners}
    \cup {<<F("a", "bool"), S("b", i)>> : i \in Inners}
    \cup {<<S("a", i), F("b", "i16")>> : i \in Inners}

(* from_row::<T>: T is a record, or a type that is no record at all.       *)
Targets ==
    {S("", fields) : fields \in FlatRecords \cup NestedRecords}
    \cup {F("", ty) : ty \in LeafTypes}

BatchTargets ==
    {S("", <<F("a", "bool")>>),
     S("", <<F("a", "i16"), F("b", "Option")>>),
     S("", <<S("a", <<F("a", "bool")>>)>>)}

(***************************************************************************)
(* The framework's choice of cursor method for a field's static type.      *)
(***************************************************************************)
Method(ty) ==
    CASE ty = "bool" -> "deserialize_bool"
      [] ty = "i8" -> "deserialize_i8"
      [] ty = "i16" -> "deserialize_i16"
      [] ty = "i32" -> "deserialize_i32"
      [] ty = "i64" -> "deserialize_i64"
      [] ty = "u32" -> "deserialize_u32"
      [] ty = "f32" -> "deserialize_f32"
      [] ty = "f64" -> "deserialize_f64"
      [] ty = "String" -> "deserialize_string"
      [] ty = "ByteBuf" -> "deserialize_byte_buf"
      [] ty \in SeqTypes -> "deserialize_seq"
      [] ty = "IgnoredAny" -> "deserialize_ignored_any"
      [] ty = "Any" -> "deserialize_any"
      [] ty = "u8" -> "deserialize_u8"
      [] ty = "u16" -> "deserialize_u16"
      [] ty = "u64" -> "deserialize_u64"
      [] ty = "char" -> "deserialize_char"
      [] ty = "&str" -> "deserialize_str"
      [] ty = "&[u8]" -> "deserialize_bytes"
      [] ty = "()" -> "deserialize_unit"
      [] ty = "Identifier" -> "deserialize_identifier"
      [] ty = "Option" -> "deserialize_option"
      [] ty = "Enum" -> "deserialize_enum"
      [] ty = "UnitStruct" -> "deserialize_unit_struct"
      [] ty = "NewtypeStruct" -> "deserialize_newtype_struct"
      [] ty = "Tuple" -> "deserialize_tuple"
      [] ty = "TupleStruct" -> "deserialize_tuple_struct"
      [] ty = "Struct" -> "deserialize_struct"

(***************************************************************************)
(* unsupported_type! and the hand-written Err(Error::UnsupportedType)      *)
(* methods.                                                                *)
(***************************************************************************)
UnsupportedMethods ==
    {"deserialize_any", "deserialize_u8", "deserialize_u16", "deserialize_u64",
     "deserialize_char", "deserialize_str", "deserialize_bytes",
     "deserialize_unit", "deserialize_identifier", "deserialize_option",
     "deserialize_enum", "deserialize_unit_struct",
     "deserialize_newtype_struct", "deserialize_tuple",
     "deserialize_tuple_struct"}

(***************************************************************************)
(* get_value!(self, visitor, visit_x, ty): the static type each method     *)
(* asks the row for.                                                       *)
(***************************************************************************)
StaticType(m) ==
    CASE m = "deserialize_bool" -> "bool"
      [] m = "deserialize_i8" -> "i8"
      [] m = "deserialize_i16" -> "i16"
      [] m = "deserialize_i32" -> "i32"
      [] m = "deserialize_i64" -> "i64"
      [] m = "deserialize_u32" -> "u32"
      [] m = "deserialize_f32" -> "f32"
      [] m = "deserialize_f64" -> "f64"
      [] m = "deserialize_string" -> "String"
      [] m = "deserialize_byte_buf" -> "Vec<u8>"
      [] m = "deserialize_seq" -> "Vec<u8>"

(***************************************************************************)
(* The row's typed access, try_get::<_, ty>(index): the SQL types a static *)
(* type accepts, then NULL, then the stored value.  index is 0-based.      *)
(***************************************************************************)
Accepts(ty, sql) ==
    \/ ty = "bool" /\ sql = "BOOL"
    \/ ty = "i8" /\ sql = "CHAR"
    \/ ty = "i16" /\ sql = "INT2"
    \/ ty = "i32" /\ sql = "INT4"
    \/ ty = "i64" /\ sql = "INT8"
    \/ ty = "u32" /\ sql = "OID"
    \/ ty = "f32" /\ sql = "FLOAT4"
    \/ ty = "f64" /\ sql = "FLOAT8"
    \/ ty = "String" /\ sql \in {"TEXT", "VARCHAR"}
    \/ ty = "Vec<u8>" /\ sql = "BYTEA"

try_get(row, i, ty) ==
    IF i + 1 \notin DOMAIN row
    THEN Err("Column", <<"Error(Column)">>)
    ELSE IF ~Accepts(ty, row[i + 1].ty)
    THEN Err("Conversion", <<"Error(Conversion(WrongType))">>)
    ELSE IF row[i + 1].value = <<>>
    THEN Err("Conversion", <<"Error(Conversion(WasNull))">>)
    ELSE Ok(row[i + 1].value)

(***************************************************************************)
(* visitor.visit_seq(SeqDeserializer::new(raw.into_iter())): the field's   *)
(* Vec visitor deserializes every byte as an element.  A u8 element takes  *)
(* the byte; a String element rejects it with the framework's message.     *)
(***************************************************************************)
visit_seq(fty, raw) ==
    IF fty = "Vec<u8>"
    THEN Ok(<<"Vec", [i \in DOMAIN raw |-> <<"u8", raw[i]>>]>>)
    ELSE IF raw = <<>>
    THEN Ok(<<"Vec", <<>>>>)
    ELSE Err("Message", <<"invalid type: integer, expected a string">>)

(* Deserialize, reading the column after the one at the cursor.            *)
Deserialize_NextColumn(fty, row, i) ==
    LET m == Method(fty) IN
    IF m \in UnsupportedMethods
    THEN Err("UnsupportedType", <<>>)
    ELSE IF m = "deserialize_ignored_any"
    THEN Ok(<<"IgnoredAny">>)
    ELSE LET g == try_get(row, i + 1, StaticType(m)) IN
         IF g.tag = "Err"
         THEN Err("InvalidType", g.msg)
         ELSE IF m = "deserialize_seq"
         THEN visit_seq(fty, g.val[1])
         ELSE Ok(<<fty, g.val[1]>>)

(***************************************************************************)
(* impl de::Deserializer for &mut Deserializer: the outcome of              *)
(* seed.deserialize(&mut *self) for a field of static type fty that is not *)
(* a struct, with the cursor at index i.                                   *)
(***************************************************************************)
Deserialize(fty, row, i) ==
    LET m == Method(fty) IN
    IF m \in UnsupportedMethods
    THEN Err("UnsupportedType", <<>>)
    ELSE IF m = "deserialize_ignored_any"
    THEN Ok(<<"IgnoredAny">>)
    ELSE LET g == try_get(row, i, StaticType(m)) IN
         IF g.tag = "Err"
         THEN Err("InvalidType", g.msg)
         ELSE IF m = "deserialize_seq"
         THEN visit_seq(fty, g.val[1])
         ELSE Ok(<<fty, g.val[1]>>)

(***************************************************************************)
(* A pass over one row.  A configuration c holds the cursor index, the     *)
(* stack of record-visitor activations, the type `req` whose deserialize   *)
(* is about to be called on the cursor, the outcome `result` of the call   *)
(* that just returned, the position `pc` of the pass and the count of      *)
(* completed value steps.  An activation has the record's fields, the      *)
(* values got so far (<<>>: none yet), and the last key with the field it  *)
(* selected (0: the key names no field).                                   *)
(*                                                                         *)
(* pc = "call": seed.deserialize(&mut *self) (T::deserialize at the top)   *)
(*              is about to run for c.req;                                 *)
(* pc = "map":  the visitor on top of the stack asks for the next key;     *)
(* pc = "ret":  a deserialize call has returned c.result: to               *)
(*              next_value_seed when the stack holds a visitor, to         *)
(*              from_row / from_rows when it is empty.                     *)
(***************************************************************************)
Frame(fields) ==
    [fields |-> fields, got |-> [i \in DOMAIN fields |-> <<>>],
     cur |-> 0, key |-> ""]

NoReq == F("", "")

Top(c) == c.stack[Len(c.stack)]

Pop(st) == SubSeq(st, 1, Len(st) - 1)

SetTop(c, f) == [c.stack EXCEPT ![Len(c.stack)] = f]

(* Deserializer::from_row(input), and T::deserialize(&mut deserializer)    *)
(* about to run.                                                           *)
from_row_start(ty) ==
    [index |-> 0, stack |-> <<>>, result |-> NoResult, pc |-> "call",
     req |-> ty, nvals |-> 0]

(* deserialize, with the unsupported methods consuming the column.         *)
deserialize_Consuming(row, c) ==
    [c EXCEPT !.result = Deserialize(c.req.ty, row, c.index),
              !.index = IF Method(c.req.ty) \in UnsupportedMethods
                        THEN @ + 1 ELSE @,
              !.pc = "ret", !.req = NoReq]

(* A method of the cursor that is not deserialize_struct returns: the      *)
(* index is as it was.                                                     *)
deserialize(row, c) ==
    [c EXCEPT !.result = Deserialize(c.req.ty, row, c.index),
              !.pc = "ret", !.req = NoReq]

(* deserialize_struct: deserialize_map, visitor.visit_map(self): the       *)
(* record's visitor starts on the same cursor.                             *)
deserialize_struct(row, c) ==
    [c EXCEPT !.stack = Append(@, Frame(c.req.sub)), !.pc = "map", !.req = NoReq]

(* The visitor on top of the stack returns e to its caller.                *)
Return(c, e) == [c EXCEPT !.stack = Pop(c.stack), !.result = e, !.pc = "ret"]

(* The derived identifier visitor: the field a key names, 0 for none.      *)
FieldIndex(fields, key) ==
    IF \E i \in DOMAIN fields : fields[i].name = key
    THEN CHOOSE i \in DOMAIN fields : fields[i].name = key
    ELSE 0

(* The derived visitor after the end of the map: the first field, in       *)
(* declaration order, that got no value and is not an Option is missing.   *)
(* <<"missing field", n>> stands for the text: missing field, then n in    *)
(* backquotes.                                                             *)
visit_map_end(f) ==
    LET missing == {i \in DOMAIN f.fields :
                       f.got[i] = <<>> /\ f.fields[i].ty # "Option"}
        first == CHOOSE i \in missing : \A j \in missing : i <= j
    IN  IF missing # {}
        THEN Err("Message", <<"missing field", f.fields[first].name>>)
        ELSE Ok(<<"struct", [i \in DOMAIN f.fields |->
                     IF f.got[i] = <<>> THEN <<"None">> ELSE f.got[i]]>>)

(* next_key_seed without the check for the end of the columns.             *)
next_key_seed_NoEnd(row, c) ==
    LET f == Top(c) IN
    IF c.index + 1 \notin DOMAIN row
    THEN Return(c, Err("UnknownField", <<>>))
    ELSE LET key == row[c.index + 1].name
             k == FieldIndex(f.fields, key)
         IN  IF k # 0 /\ f.got[k] # <<>>
             THEN Return(c, Err("Message", <<"duplicate field", key>>))
             ELSE [c EXCEPT
                     !.stack = SetTop(c, [f EXCEPT !.cur = k, !.key = key]),
                     !.pc = "call",
                     !.req = IF k = 0 THEN F(key, "IgnoredAny") ELSE f.fields[k]]

(* next_key_seed handing out the record's field names by position instead  *)
(* of the columns' names.                                                  *)
next_key_seed_ByPosition(row, c) ==
    LET f == Top(c) IN
    IF c.index >= Len(row)
    THEN Return(c, visit_map_end(f))
    ELSE LET key == IF c.index + 1 \in DOMAIN f.fields
                    THEN f.fields[c.index + 1].name
                    ELSE row[c.index + 1].name
             k == FieldIndex(f.fields, key)
         IN  IF k # 0 /\ f.got[k] # <<>>
             THEN Return(c, Err("Message", <<"duplicate field", key>>))
             ELSE [c EXCEPT
                     !.stack = SetTop(c, [f EXCEPT !.cur = k, !.key = key]),
                     !.pc = "call",
                     !.req = IF k = 0 THEN F(key, "IgnoredAny") ELSE f.fields[k]]

(***************************************************************************)
(* MapAccess::next_key_seed, with the visitor's use of the key: the end of *)
(* the map ends the visitor; a key that names a field already set is a     *)
(* duplicate; any other key is followed by next_value_seed for the field's *)
(* type, or for IgnoredAny when the key names no field.                    *)
(***************************************************************************)
next_key_seed(row, c) ==
    LET f == Top(c) IN
    IF c.index >= Len(row)
    THEN Return(c, visit_map_end(f))
    ELSE IF c.index + 1 \notin DOMAIN row
    THEN Return(c, Err("UnknownField", <<>>))
    ELSE LET key == row[c.index + 1].name
             k == FieldIndex(f.fields, key)
         IN  IF k # 0 /\ f.got[k] # <<>>
             THEN Return(c, Err("Message", <<"duplicate field", key>>))
             ELSE [c EXCEPT
                     !.stack = SetTop(c, [f EXCEPT !.cur = k, !.key = key]),
                     !.pc = "call",
                     !.req = IF k = 0 THEN F(key, "IgnoredAny") ELSE f.fields[k]]

(***************************************************************************)
(* MapAccess::next_value_seed from `let result = seed.deserialize(..)` on: *)
(* the advance, the enrichment of an InvalidType error with the name of    *)
(* the column at index - 1 (unwrap: an abort when there is none), and the  *)
(* visitor's use of the outcome.                                           *)
(***************************************************************************)
(* Advance, only after a value that was deserialized.                      *)
Advance_OnOk(i, r) == IF r.tag = "Ok" THEN i + 1 ELSE i

Advance(i, r) == i + 1

Enrich(row, i, r) ==
    IF r.tag = "Err" /\ r.kind = "InvalidType"
    THEN IF i - 1 < Len(row)
         THEN Err("InvalidType", <<row[i].name, " ">> \o r.msg)
         ELSE Panic
    ELSE r

next_value_seed(row, c) ==
    LET i == Advance(c.index, c.result)
        res == Enrich(row, i, c.result)
        f == Top(c)
        c1 == [c EXCEPT !.index = i, !.nvals = @ + 1]
    IN  IF res.tag = "Ok"
        THEN [c1 EXCEPT
                !.stack = SetTop(c, [f EXCEPT
                             !.got = IF f.cur = 0 THEN @
                                     ELSE [@ EXCEPT ![f.cur] = res.val]]),
                !.result = NoResult, !.pc = "map"]
        ELSE IF res.tag = "Panic"
        THEN [c1 EXCEPT !.stack = <<>>, !.result = Panic, !.pc = "ret"]
        ELSE Return(c1, res)

(***************************************************************************)
(* One step of a pass, and the pass run to its end.                        *)
(***************************************************************************)
PassEnded(c) == c.pc = "ret" /\ c.stack = <<>>

Step(row, c) ==
    IF c.pc = "ret" THEN next_value_seed(row, c)
    ELSE IF c.pc = "map" THEN next_key_seed(row, c)
    ELSE IF Method(c.req.ty) = "deserialize_struct"
    THEN deserialize_struct(row, c)
    ELSE deserialize(row, c)

RECURSIVE Run(_, _)
Run(row, c) == IF PassEnded(c) THEN c ELSE Run(row, Step(row, c))

(* from_row(input): Ok(T::deserialize(&mut deserializer)?)                 *)
from_row(row, ty) == Run(row, from_row_start(ty)).result

(***************************************************************************)
(* The state machine.                                                      *)
(***************************************************************************)
Cur == [index |-> index, stack |-> stack, result |-> result, pc |-> pc,
        req |-> req, nvals |-> nvals]

SetCur(c) ==
    /\ index' = c.index
    /\ stack' = c.stack
    /\ result' = c.result
    /\ pc' = c.pc
    /\ req' = c.req
    /\ nvals' = c.nvals

Init ==
    /\ call \in {"from_row", "from_rows"}
    /\ \/ call = "from_row" /\ T \in Targets /\ rows \in {<<r>> : r \in Rows}
       \/ call = "from_rows" /\ T \in BatchTargets
                             /\ rows \in SeqUpTo(BatchRows, MaxRows)
    /\ pos = 0
    /\ input = <<>>
    /\ index = 0
    /\ stack = <<>>
    /\ result = NoResult
    /\ req = NoReq
    /\ pc = "idle"
    /\ nvals = 0
    /\ out = <<>>
    /\ ret = NoResult

(* from_row is called: the cursor is built and T::deserialize is called.   *)
FromRow ==
    /\ call = "from_row" /\ pc = "idle"
    /\ input' = rows[1]
    /\ pos' = 1
    /\ SetCur(from_row_start(T))
    /\ UNCHANGED <<call, T, rows, out, ret>>

(* from_rows: the closure of the map is called on the next row.            *)
FromRowsNext ==
    /\ call = "from_rows" /\ pc = "idle" /\ pos < Len(rows)
    /\ input' = rows[pos + 1]
    /\ pos' = pos + 1
    /\ SetCur(from_row_start(T))
    /\ UNCHANGED <<call, T, rows, out, ret>>

(* from_rows: the iterator is exhausted, collect returns the vector.       *)
FromRowsEnd ==
    /\ call = "from_rows" /\ pc = "idle" /\ pos = Len(rows)
    /\ ret' = Ok(<<"Vec", out>>)
    /\ pc' = "done"
    /\ UNCHANGED <<call, T, rows, pos, input, index, stack, result, req, nvals, out>>

(* A deserialize_* method other than deserialize_struct runs.              *)
DeserializeValue ==
    /\ pc = "call" /\ Method(req.ty) # "deserialize_struct"
    /\ SetCur(deserialize(input, Cur))
    /\ UNCHANGED <<call, T, rows, pos, input, out, ret>>

DeserializeStruct ==
    /\ pc = "call" /\ Method(req.ty) = "deserialize_struct"
    /\ SetCur(deserialize_struct(input, Cur))
    /\ UNCHANGED <<call, T, rows, pos, input, out, ret>>

NextKeySeed ==
    /\ pc = "map"
    /\ SetCur(next_key_seed(input, Cur))
    /\ UNCHANGED <<call, T, rows, pos, input, out, ret>>

(* next_value_seed once seed.deserialize has returned.                     *)
NextValueSeed ==
    /\ pc = "ret" /\ stack # <<>>
    /\ SetCur(next_value_seed(input, Cur))
    /\ UNCHANGED <<call, T, rows, pos, input, out, ret>>

(* from_row returns what T::deserialize returned.                          *)
FromRowReturn ==
    /\ call = "from_row" /\ pc = "ret" /\ stack = <<>>
    /\ ret' = result
    /\ pc' = "done"
    /\ UNCHANGED <<call, T, rows, pos, input, index, stack, result, req, nvals, out>>

(* FromRowsCollect, skipping a row that failed instead of returning its    *)
(* error.                                                                  *)
FromRowsCollect_Skipping ==
    /\ call = "from_rows" /\ pc = "ret" /\ stack = <<>>
    /\ out' = IF result.tag = "Ok" THEN Append(out, result.val) ELSE out
    /\ pc' = "idle"
    /\ ret' = ret
    /\ UNCHANGED <<call, T, rows, pos, input, index, stack, result, req, nvals>>

(* from_rows: collect takes the closure's result: a record is pushed, an   *)
(* error ends the collection and is returned.                              *)
FromRowsCollect ==
    /\ call = "from_rows" /\ pc = "ret" /\ stack = <<>>
    /\ IF result.tag = "Ok"
       THEN /\ out' = Append(out, result.val)
            /\ pc' = "idle"
            /\ ret' = ret
       ELSE /\ out' = out
            /\ pc' = "done"
            /\ ret' = result
    /\ UNCHANGED <<call, T, rows, pos, input, index, stack, result, req, nvals>>

Next ==
    \/ FromRow
    \/ FromRowsNext
    \/ FromRowsEnd
    \/ DeserializeValue
    \/ DeserializeStruct
    \/ NextKeySeed
    \/ NextValueSeed
    \/ FromRowReturn
    \/ FromRowsCollect

Spec == Init /\ [][Next]_vars

(***************************************************************************)
(* Notions the properties below use.                                       *)
(***************************************************************************)
IsRecord(ty) == ty.ty = "Struct"

(* A record none of whose fields is itself a record.                       *)
IsFlat(ty) ==
    IsRecord(ty) /\ \A i \in DOMAIN ty.sub : ty.sub[i].ty # "Struct"

FromRowDone == call = "from_row" /\ pc = "done"

(* The columns of the row that carry a given name.                         *)
ColumnsNamed(row, n) == {j \in DOMAIN row : row[j].name = n}

(* The SQL type that stores a static type exactly.                         *)
StoredAs(fty, sql) ==
    \/ fty = "bool" /\ sql = "BOOL"
    \/ fty = "i16" /\ sql = "INT2"
    \/ fty = "i32" /\ sql = "INT4"
    \/ fty = "i64" /\ sql = "INT8"
    \/ fty = "f32" /\ sql = "FLOAT4"
    \/ fty = "f64" /\ sql = "FLOAT8"
    \/ fty = "String" /\ sql \in {"TEXT", "VARCHAR"}
    \/ fty = "Vec<u8>" /\ sql = "BYTEA"

(* A field value equals a stored value v of its column: a byte vector      *)
(* element by element, anything else as the value itself.                  *)
NativeEqual(fv, fty, v) ==
    IF fty = "Vec<u8>"
    THEN /\ fv[1] = "Vec"
         /\ Len(fv[2]) = Len(v)
         /\ \A k \in DOMAIN v : fv[2][k] = <<"u8", v[k]>>
    ELSE fv = <<fty, v>>

(* Every column is NOT NULL and names a field whose static type its SQL    *)
(* type stores exactly; every field is named by exactly one column.        *)
ExactRow(row, ty) ==
    /\ IsRecord(ty)
    /\ \A j \in DOMAIN row :
          /\ row[j].value # <<>>
          /\ \E i \in DOMAIN ty.sub :
                /\ ty.sub[i].name = row[j].name
                /\ StoredAs(ty.sub[i].ty, row[j].ty)
    /\ \A i \in DOMAIN ty.sub :
          Cardinality(ColumnsNamed(row, ty.sub[i].name)) = 1

(***************************************************************************)
(* C1.  For every row whose columns are the record's fields by name, each  *)
(* NOT NULL and of the SQL type that stores the field's static type        *)
(* exactly, from_row succeeds and every field of the record it returns     *)
(* equals the value of the column with the field's name.                   *)
(***************************************************************************)
C1_ExactRowGivesItsValues ==
    (FromRowDone /\ ExactRow(input, T)) =>
        /\ ret.tag = "Ok"
        /\ ret.val[1] = "struct"
        /\ \A i \in DOMAIN T.sub :
              \A j \in ColumnsNamed(input, T.sub[i].name) :
                  NativeEqual(ret.val[2][i], T.sub[i].ty, input[j].value[1])

(* A two-column row given in the order opposite to the record's fields,    *)
(* one of them a byte vector, has been deserialized.                       *)
C1_Witness ==
    /\ FromRowDone /\ ExactRow(input, T)
    /\ Len(input) = 2
    /\ input[1].name = "b" /\ input[2].name = "a"
    /\ \E j \in DOMAIN input : input[j].ty = "BYTEA"
    /\ ret.tag = "Ok"

(***************************************************************************)
(* C2.  For every column that is NULL and whose field is an Option,        *)
(* from_row succeeds and the field is None.  Stated for the rows all of    *)
(* whose columns are NULL and name, one to one, the Option fields of the   *)
(* record.                                                                 *)
(***************************************************************************)
NullOptionRow(row, ty) ==
    /\ IsRecord(ty)
    /\ row # <<>>
    /\ \A j \in DOMAIN row :
          /\ row[j].value = <<>>
          /\ \E i \in DOMAIN ty.sub :
                ty.sub[i].name = row[j].name /\ ty.sub[i].ty = "Option"
    /\ \A i \in DOMAIN ty.sub :
          /\ ty.sub[i].ty = "Option"
          /\ Cardinality(ColumnsNamed(row, ty.sub[i].name)) = 1

C2_NullIntoOptionIsNone ==
    (FromRowDone /\ NullOptionRow(input, T)) =>
        /\ ret.tag = "Ok"
        /\ \A i \in DOMAIN T.sub : ret.val[2][i] = <<"None">>

(***************************************************************************)
(* C3.  For a column that is NULL and whose field is a non-optional        *)
(* primitive, from_row fails with InvalidType and the message "<name of    *)
(* that column> <underlying conversion error>"; no record is returned.     *)
(* Stated for the first column of the row, whose value is requested before *)
(* any other step can fail: the framework asks it for the field the        *)
(* column's name selects, through every record on the way.                 *)
(***************************************************************************)
RECURSIVE RequestedType(_, _)
RequestedType(ty, n) ==
    LET k == FieldIndex(ty.sub, n) IN
    IF k = 0 THEN "IgnoredAny"
    ELSE IF ty.sub[k].ty = "Struct" THEN RequestedType(ty.sub[k], n)
    ELSE ty.sub[k].ty

NullPrimitiveFirst(row, ty) ==
    /\ IsRecord(ty)
    /\ row # <<>>
    /\ row[1].value = <<>>
    /\ RequestedType(ty, row[1].name) \in SupportedTypes

C3_NullPrimitiveNamesItsColumn ==
    (FromRowDone /\ NullPrimitiveFirst(input, T)) =>
        /\ ret.tag = "Err"
        /\ ret.kind = "InvalidType"
        /\ Len(ret.msg) = 3
        /\ ret.msg[1] = input[1].name
        /\ ret.msg[2] = " "
        /\ ret.msg[3] \in {"Error(Conversion(WasNull))",
                           "Error(Conversion(WrongType))"}

(***************************************************************************)
(* C4.  Original statement, for a record whose fields are not records: if  *)
(* a required field of the record has no column of its name, from_row      *)
(* fails, with the index at the column count, with the Message "missing    *)
(* field `<name>`" for such a field, whatever the other columns are.       *)
(***************************************************************************)
MissingFields(row, ty) ==
    {i \in DOMAIN ty.sub :
        ty.sub[i].ty # "Option" /\ ColumnsNamed(row, ty.sub[i].name) = {}}

C4_MissingFieldIsMessage ==
    (FromRowDone /\ IsFlat(T) /\ MissingFields(input, T) # {}) =>
        /\ \E i \in MissingFields(input, T) :
              ret = Err("Message", <<"missing field", T.sub[i].name>>)
        /\ index = Len(input)

(***************************************************************************)
(* C4, amended.  For a record whose fields are not records: if every       *)
(* column that names a field is the only column of that name and its       *)
(* value deserializes as the field's type, and some required field has no  *)
(* column of its name, then from_row fails, with the index at the column   *)
(* count, with the Message "missing field `<name>`" for the first such     *)
(* field in declaration order; columns that name no field are skipped      *)
(* whatever they hold.                                                     *)
(***************************************************************************)
CleanColumns(row, ty) ==
    \A j \in DOMAIN row :
        LET k == FieldIndex(ty.sub, row[j].name) IN
        k # 0 =>
            /\ Cardinality(ColumnsNamed(row, row[j].name)) = 1
            /\ Deserialize(ty.sub[k].ty, row, j - 1).tag = "Ok"

FirstMissing(row, ty) ==
    CHOOSE i \in MissingFields(row, ty) :
        \A j \in MissingFields(row, ty) : i <= j

C4_FirstMissingFieldAfterCleanPass ==
    (/\ FromRowDone /\ IsFlat(T)
     /\ CleanColumns(input, T)
     /\ MissingFields(input, T) # {}) =>
        /\ ret = Err("Message",
                     <<"missing field", T.sub[FirstMissing(input, T)].name>>)
        /\ index = Len(input)

(* The record's field is missing, and a NULL column that names no field of *)
(* the record has been skipped.                                            *)
C4_Witness ==
    /\ FromRowDone /\ IsFlat(T)
    /\ CleanColumns(input, T)
    /\ Cardinality(MissingFields(input, T)) = 1
    /\ \E j \in DOMAIN input :
          input[j].value = <<>> /\ FieldIndex(T.sub, input[j].name) = 0
    /\ ret.kind = "Message"

(***************************************************************************)
(* C5.  Original statement, for a record whose fields are not records and  *)
(* a row whose columns have different names: from_row gives the same       *)
(* result for the row and for every permutation of its columns.            *)
(***************************************************************************)
ColumnOrders(n) ==
    {p \in [1..n -> 1..n] : \A i, j \in 1..n : p[i] = p[j] => i = j}

Permute(row, p) == [i \in DOMAIN row |-> row[p[i]]]

C5_SameResultUnderPermutation ==
    (/\ FromRowDone /\ IsFlat(T)
     /\ \A j \in DOMAIN input : ColumnsNamed(input, input[j].name) = {j}) =>
        \A p \in ColumnOrders(Len(input)) :
            from_row(Permute(input, p), T) = ret

(***************************************************************************)
(* C5, amended.  For a record whose fields are not records and every       *)
(* permutation of the row's columns: from_row succeeds on the permutation  *)
(* exactly when it succeeds on the row, and then returns the same record.  *)
(* (When it fails, the error is that of the first failing step in the      *)
(* order of the columns, and may differ.)                                  *)
(***************************************************************************)
C5_SameRecordUnderPermutation ==
    (FromRowDone /\ IsFlat(T)) =>
        \A p \in ColumnOrders(Len(input)) :
            LET r == from_row(Permute(input, p), T) IN
            /\ (r.tag = "Ok") <=> (ret.tag = "Ok")
            /\ ret.tag = "Ok" => r = ret

(* A two-field record has been read from a row that gives its columns in   *)
(* the order opposite to the fields, with two values of the same SQL type. *)
C5_Witness ==
    /\ FromRowDone /\ IsFlat(T)
    /\ Len(T.sub) = 2 /\ Len(input) = 2
    /\ input[1].name = "b" /\ input[2].name = "a"
    /\ input[1].ty = input[2].ty /\ input[1].value # input[2].value
    /\ ret.tag = "Ok"

FailingRows == {j \in DOMAIN rows : from_row(rows[j], T).tag # "Ok"}

C7_FromRowsIsFromRowPerRow ==
    /\ (call = "from_rows" /\ pc = "done") =>
          IF FailingRows = {}
          THEN /\ ret.tag = "Ok"
               /\ ret.val[1] = "Vec"
               /\ Len(ret.val[2]) = Len(rows)
               /\ \A i \in DOMAIN rows :
                     ret.val[2][i] = from_row(rows[i], T).val
          ELSE LET j == CHOOSE j \in FailingRows :
                            \A k \in FailingRows : j <= k
               IN  /\ ret = from_row(rows[j], T)
                   /\ ret.tag # "Ok" /\ ret.val = <<>>
                   /\ pos = j
    /\ (call = "from_rows" /\ pc = "call" /\ stack = <<>>) =>
          index = 0 /\ input = rows[pos]

(* A batch whose first row gave a record and whose second row failed: the  *)
(* error is returned and the record of the first row is not.               *)
C7_Witness ==
    /\ call = "from_rows" /\ pc = "done"
    /\ Len(rows) = 2
    /\ Len(out) = 1
    /\ ret.tag = "Err"
    /\ index > 0

(***************************************************************************)
(* C8.  In every state of a pass, for every target type the cursor         *)
(* accepts, 0 <= index <= column count of the row.  Stated for the states  *)
(* no abort has led to.                                                    *)
(***************************************************************************)
C8_IndexWithinColumns ==
    (pc # "idle" /\ result.tag # "Panic" /\ ret.tag # "Panic") =>
        (0 <= index /\ index <= Len(input))

(***************************************************************************)
(* C9.  next_value_seed advances the index by exactly one whatever the     *)
(* outcome of the value, and next_key_seed leaves the index as it is; so   *)
(* in a pass over a record whose fields are not records the index is the   *)
(* number of value steps made, and the key handed to the framework after k *)
(* value steps is the name of column k.                                    *)
(***************************************************************************)
C9_ValueStepAdvancesByOne ==
    /\ [][/\ (pc = "ret" /\ stack # <<>>) => index' = index + 1
          /\ pc = "map" => index' = index]_vars
    /\ []((IsFlat(T) /\ pc \in {"call", "map", "ret"}) =>
            /\ index = nvals
            /\ (pc = "call" /\ stack # <<>>) =>
                  /\ nvals < Len(input)
                  /\ Top(Cur).key = input[nvals + 1].name)

(* The second value step of a pass failed with a Message of the framework, *)
(* and the index is 2.                                                     *)
C9_Witness ==
    /\ IsFlat(T)
    /\ pc = "ret" /\ stack = <<>>
    /\ result.tag = "Err" /\ result.kind = "Message"
    /\ result.msg = <<"invalid type: integer, expected a string">>
    /\ nvals = 2 /\ index = 2

(***************************************************************************)
(* C10.  Whenever a value step ends with InvalidType, the lookup of the    *)
(* column at index - 1 after the advance finds a column: when              *)
(* next_value_seed resumes with an InvalidType outcome, the index before   *)
(* the advance is below the column count, so unwrap cannot fail.           *)
(***************************************************************************)
C10_EnrichmentFindsColumn ==
    (/\ pc = "ret" /\ stack # <<>>
     /\ result.tag = "Err" /\ result.kind = "InvalidType") =>
        index < Len(input)

====
